---- MODULE Spec2Model ----
(***************************************************************************)
(* Model of BOM_Processing_Interface.py: one Streamlit script run that     *)
(* reads an uploaded order table, expands it by workcenter against the     *)
(* reference table (process_bom), cleans the result (clean_output) and     *)
(* offers it for download.                                                 *)
(*                                                                         *)
(* A cell value is a record [t, v]:                                        *)
(*   t = "num"    a float, v its value (small integers here)               *)
(*   t = "nan"    NaN, what pandas stores for a blank cell (and for the    *)
(*                default NA markers such as "N/A")                        *)
(*   t = "numstr" a string that float() accepts, v its value               *)
(*   t = "str"    a string that float() rejects                            *)
(*   t = "none"   Python None (no such column)                             *)
(***************************************************************************)
EXTENDS Integers, Sequences, FiniteSets

VARIABLES
    db_df,           \* the reference table on disk (DB_PATH)
    input_df,        \* the uploaded order table
    workcenter_map,  \* process_bom: workcenter id -> time kind -> column
    i,               \* process_bom: position of the loop over input_df
    output_rows,     \* process_bom: rows appended so far
    raw_df,          \* the frame process_bom returned
    processed_df,    \* the frame clean_output returned
    ui,              \* the elements the run has rendered, in order
    error,           \* the exception the top-level handler caught
    pc               \* position of the script

vars == <<db_df, input_df, workcenter_map, i, output_rows, raw_df,
          processed_df, ui, error, pc>>

----------------------------------------------------------------------------
(* Bounds *)

MaxRows == 2

MaxCleanRows == 2

----------------------------------------------------------------------------
(* Cell values and Python float semantics *)

Num(n) == [t |-> "num", v |-> n]

NumStr(n) == [t |-> "numstr", v |-> n]

NaN == [t |-> "nan", v |-> 0]

Text == [t |-> "str", v |-> 0]

None == [t |-> "none", v |-> 0]

\* float(v) raises ValueError on a non-numeric string, TypeError on None
FloatRaises(v) == v.t \in {"str", "none"}

\* float(v) where it returns: float(nan) is nan, float("3") is 3.0
PyFloat(v) == IF v.t = "numstr" THEN Num(v.v) ELSE v

\* a * b on floats: NaN is absorbing, also against 0
Mul(a, b) == IF a.t = "nan" \/ b.t = "nan" THEN NaN ELSE Num(a.v * b.v)

\* x == 0 on floats: False for NaN
PyEq0(x) == x.t = "num" /\ x.v = 0

\* def safe(v): try float(v) except: 0.0
safe(v) == IF FloatRaises(v) THEN Num(0) ELSE PyFloat(v)

----------------------------------------------------------------------------
(* The reference table *)

TimeKinds == {"Setup", "Machine", "Labour"}

WcIds == {"61", "62"}

Col(wc, kind) == [wc |-> wc, kind |-> kind]

TopMaterialCol == Col("", "Top_Material")

DescriptionCol == Col("", "Description")

\* re.match(r"(\d+)\s+(Setup|Machine|Labour)", col): a header is modelled by
\* the two groups the pattern would capture, "" when the digits are absent
ReMatch(col) == col.wc # "" /\ col.kind \in TimeKinds

LayoutA == <<TopMaterialCol, Col("61", "Setup"), Col("61", "Machine"), Col("62", "Labour")>>

LayoutB == <<TopMaterialCol, Col("62", "Labour"), DescriptionCol, Col("61", "Setup"), Col("62", "Machine")>>

Layouts == {LayoutA, LayoutB}

RefCells == {Num(0), Num(2), NaN, Text}

\* the cells of one reference row, aligned with the columns; a column that is
\* no time column holds text
RefVals(columns) ==
    {vals \in [1..Len(columns) -> RefCells] :
        \A j \in 1..Len(columns) : ~ReMatch(columns[j]) => vals[j] = Text}

RefRow(part, vals) == [Top_Material |-> part, vals |-> vals]

\* the rows whose time cells are all 2 or blank
PlainVals(columns) ==
    {vals \in RefVals(columns) :
        \A j \in 1..Len(columns) : ReMatch(columns[j]) => vals[j] \in {Num(2), NaN}}

AllTwos(columns) == [j \in 1..Len(columns) |-> IF ReMatch(columns[j]) THEN Num(2) ELSE Text]

\* one row for part A1; another part's row before it; two rows for A1
DbTables ==
    UNION {
        {[columns |-> c, rows |-> <<RefRow("A1", v)>>] : v \in RefVals(c)}
        \cup {[columns |-> c, rows |-> <<RefRow("B2", AllTwos(c)), RefRow("A1", v)>>] : v \in PlainVals(c)}
        \cup {[columns |-> c, rows |-> <<RefRow("A1", v), RefRow("A1", AllTwos(c))>>] : v \in PlainVals(c)}
        : c \in Layouts}

----------------------------------------------------------------------------
(* process_bom: workcenter detection *)

Range(s) == {s[k] : k \in 1..Len(s)}

EmptyMap == [order |-> <<>>, col |-> [key \in WcIds \X TimeKinds |-> 0]]

\* a variant that moves a workcenter to the end each time one of its columns is seen
setdefault_move_to_end(m, wc, kind, j) ==
    [order |-> Append(SelectSeq(m.order, LAMBDA x : x # wc), wc),
     col |-> [m.col EXCEPT ![<<wc, kind>>] = j]]

\* workcenter_map.setdefault(wc, {})[time_type] = col: a dict keeps its keys in
\* insertion order, and a later column of the same kind replaces the earlier
setdefault(m, wc, kind, j) ==
    [order |-> IF wc \in Range(m.order) THEN m.order ELSE Append(m.order, wc),
     col |-> [m.col EXCEPT ![<<wc, kind>>] = j]]

RECURSIVE DetectWorkcenters(_, _, _)
\* for col in db_df.columns: ... ; j is the position of the column, 0 in
\* m.col stands for a kind the workcenter has no column for
DetectWorkcenters(columns, j, m) ==
    IF j > Len(columns) THEN m
    ELSE DetectWorkcenters(columns, j + 1,
            IF ReMatch(columns[j])
            THEN setdefault(m, columns[j].wc, columns[j].kind, j)
            ELSE m)

----------------------------------------------------------------------------
(* process_bom: one order row *)

GoodDate == "2026-02-01"

BadDate == "soon"

\* pd.to_datetime(cell) raises on text that is no date
DateRaises(cell) == cell # GoodDate

\* pd.to_datetime(cell).date()
to_date(cell) == IF cell = GoodDate THEN <<2026, 2, 1>> ELSE <<0, 0, 0>>

\* a variant that looks the part up first and parses only the rows it keeps
RowRaisesKnownOnly(row) ==
    /\ \E k \in 1..Len(db_df.rows) : db_df.rows[k].Top_Material = row.sku
    /\ (DateRaises(row.date) \/ FloatRaises(row.qty))

\* ship_date = pd.to_datetime(row.iloc[2]).date(); qty = float(row.iloc[5]):
\* both run before the lookup, and neither is inside a try
RowRaises(row) == DateRaises(row.date) \/ FloatRaises(row.qty)

\* db_match = db_df[db_df["Top_Material"] == sku]: the positions that match
db_match(sku) == {k \in 1..Len(db_df.rows) : db_df.rows[k].Top_Material = sku}

\* db_row = db_match.iloc[0]
FirstMatch(sku) == CHOOSE k \in db_match(sku) : \A l \in db_match(sku) : k <= l

\* db_row.get(cols.get(kind)): None when the workcenter has no such column
DbGet(db_row, wmap, wc, kind) ==
    IF wmap.col[<<wc, kind>>] = 0 THEN None ELSE db_row.vals[wmap.col[<<wc, kind>>]]

OutputRow(row, qty, wc, setup, machine, labour) ==
    [Order |-> row.order, SKU |-> row.sku, Qty |-> qty,
     PlannedShipDate |-> to_date(row.date), Asset |-> wc,
     TotalSetupTime |-> setup, TotalMachineTime |-> machine,
     TotalLabourTime |-> labour]

\* safe(db_row.get(...)) * qty
Scaled(v, qty) == Mul(safe(v), qty)

\* if setup == 0 and machine == 0 and labour == 0: continue
AllZero(setup, machine, labour) == PyEq0(setup) /\ PyEq0(machine) /\ PyEq0(labour)

RECURSIVE ExpandWorkcenters(_, _, _, _, _)
\* for wc, cols in workcenter_map.items(): the rows appended for one order row
ExpandWorkcenters(row, qty, db_row, wmap, k) ==
    IF k > Len(wmap.order) THEN <<>>
    ELSE LET wc == wmap.order[k]
             setup == Scaled(DbGet(db_row, wmap, wc, "Setup"), qty)
             machine == Scaled(DbGet(db_row, wmap, wc, "Machine"), qty)
             labour == Scaled(DbGet(db_row, wmap, wc, "Labour"), qty)
             rest == ExpandWorkcenters(row, qty, db_row, wmap, k + 1)
         IN  IF AllZero(setup, machine, labour) THEN rest
             ELSE <<OutputRow(row, qty, wc, setup, machine, labour)>> \o rest

\* a variant that follows the header comment: "Parts missing from the database
\* output a single row with zero times"
MissingPartRowsZero(row) ==
    <<OutputRow(row, PyFloat(row.qty), "", Num(0), Num(0), Num(0))>>

\* if db_match.empty: continue
MissingPartRows(row) == <<>>

\* the rows one iteration of the loop appends, for a row that parses
RowOutput(row, wmap) ==
    IF db_match(row.sku) = {} THEN MissingPartRows(row)
    ELSE ExpandWorkcenters(row, PyFloat(row.qty), db_df.rows[FirstMatch(row.sku)], wmap, 1)

----------------------------------------------------------------------------
(* Data frames: the column labels, the index labels and the rows *)

OutputColumns ==
    {"Order", "SKU", "Qty", "Planned Ship Date", "Asset",
     "Total Setup Time", "Total Machine Time", "Total Labour Time"}

\* a frame variable no statement has assigned yet
NoFrame == [columns |-> {"<unbound>"}, index |-> <<>>, rows |-> <<>>]

\* pd.DataFrame(output_rows): the columns come from the dicts, so an empty
\* list gives a frame with no columns at all
DataFrame(rows) ==
    [columns |-> IF rows = <<>> THEN {} ELSE OutputColumns,
     index |-> [k \in 1..Len(rows) |-> k - 1],
     rows |-> rows]

\* pd.to_numeric(x, errors="coerce")
to_numeric(x) ==
    CASE x.t = "num" -> x
      [] x.t = "numstr" -> Num(x.v)
      [] OTHER -> NaN

CoerceRow(r) ==
    [r EXCEPT !.TotalSetupTime = to_numeric(@),
              !.TotalMachineTime = to_numeric(@),
              !.TotalLabourTime = to_numeric(@)]

\* the addend of a value in a sum that skips NaN
Addend(x) == IF x.t = "num" THEN x.v ELSE 0

\* a variant with skipna=False: one NaN makes the sum NaN
sum_axis1_propagate(r) ==
    IF \E x \in {r.TotalSetupTime, r.TotalMachineTime, r.TotalLabourTime} : x.t = "nan"
    THEN NaN
    ELSE Num(r.TotalSetupTime.v + r.TotalMachineTime.v + r.TotalLabourTime.v)

\* df[time_cols].sum(axis=1): skipna=True by default
sum_axis1(r) ==
    Num(Addend(r.TotalSetupTime) + Addend(r.TotalMachineTime) + Addend(r.TotalLabourTime))

\* .fillna(0)
fillna0(x) == IF x.t = "nan" THEN Num(0) ELSE x

FillRow(r) ==
    [r EXCEPT !.TotalSetupTime = fillna0(@),
              !.TotalMachineTime = fillna0(@),
              !.TotalLabourTime = fillna0(@)]

\* the positions df[~(sum == 0)] keeps, in order
RECURSIVE KeptPositions(_, _)
KeptPositions(rows, k) ==
    IF k > Len(rows) THEN <<>>
    ELSE IF PyEq0(sum_axis1(rows[k])) THEN KeptPositions(rows, k + 1)
         ELSE <<k>> \o KeptPositions(rows, k + 1)

\* .reset_index(drop=True)
reset_index(index) == [k \in 1..Len(index) |-> k - 1]

\* df[col] raises KeyError for a frame without the time columns
CleanRaisesKeyError(df) == ~({"Total Setup Time", "Total Machine Time", "Total Labour Time"} \subseteq df.columns)

clean_output(df) ==
    LET coerced == [k \in 1..Len(df.rows) |-> CoerceRow(df.rows[k])]
        kept == KeptPositions(coerced, 1)
    IN  [columns |-> df.columns,
         index |-> reset_index([k \in 1..Len(kept) |-> df.index[kept[k]]]),
         rows |-> [k \in 1..Len(kept) |-> FillRow(coerced[kept[k]])]]

----------------------------------------------------------------------------
(* The uploaded table: pd.read_excel(uploaded_file, dtype=str) *)

QtyCells == {NumStr(0), NumStr(3), NaN, Text}

Skus == {"A1", "ZZ"}

\* the cells of one order row that the script reads (columns 2, 3 and 5)
RowChoices ==
    {[date |-> GoodDate, sku |-> s, qty |-> q] : s \in Skus, q \in QtyCells}
    \cup {[date |-> BadDate, sku |-> s, qty |-> NumStr(3)] : s \in Skus}

\* the table of the chosen rows; column 0 numbers the orders 1001, 1002, ...
InputTable(c) ==
    [k \in 1..Len(c) |-> [order |-> 1000 + k, date |-> c[k].date,
                          sku |-> c[k].sku, qty |-> c[k].qty]]

----------------------------------------------------------------------------
(* The script *)

Init ==
    /\ db_df \in DbTables
    /\ input_df = <<>>
    /\ workcenter_map = EmptyMap
    /\ i = 0
    /\ output_rows = <<>>
    /\ raw_df = NoFrame
    /\ processed_df = NoFrame
    /\ ui = <<>>
    /\ error = ""
    /\ pc = "idle"

\* if uploaded_file: read it, show the preview, announce the processing; then
\* process_bom reads the reference table and detects the workcenters
Upload ==
    /\ pc = "idle"
    /\ \E n \in 0..MaxRows : \E c \in [1..n -> RowChoices] : input_df' = InputTable(c)
    /\ ui' = <<"success_uploaded", "preview_uploaded", "info_processing">>
    /\ workcenter_map' = DetectWorkcenters(db_df.columns, 1, EmptyMap)
    /\ output_rows' = <<>>
    /\ i' = 1
    /\ pc' = "loop"
    /\ UNCHANGED <<db_df, raw_df, processed_df, error>>

\* except Exception as e: st.error(...)
Caught(e) ==
    /\ error' = e
    /\ ui' = Append(ui, "error")
    /\ pc' = "error"

\* an iteration in which to_datetime or float raises
RowFails ==
    /\ pc = "loop"
    /\ i <= Len(input_df)
    /\ RowRaises(input_df[i])
    /\ Caught("parse")
    /\ UNCHANGED <<db_df, input_df, workcenter_map, i, output_rows, raw_df, processed_df>>

\* an iteration for a part the reference table does not have
RowSkipped ==
    /\ pc = "loop"
    /\ i <= Len(input_df)
    /\ ~RowRaises(input_df[i])
    /\ db_match(input_df[i].sku) = {}
    /\ output_rows' = output_rows \o RowOutput(input_df[i], workcenter_map)
    /\ i' = i + 1
    /\ UNCHANGED <<db_df, input_df, workcenter_map, raw_df, processed_df, ui, error, pc>>

\* an iteration for a part the reference table has
RowExpanded ==
    /\ pc = "loop"
    /\ i <= Len(input_df)
    /\ ~RowRaises(input_df[i])
    /\ db_match(input_df[i].sku) # {}
    /\ output_rows' = output_rows \o RowOutput(input_df[i], workcenter_map)
    /\ i' = i + 1
    /\ UNCHANGED <<db_df, input_df, workcenter_map, raw_df, processed_df, ui, error, pc>>

\* return pd.DataFrame(output_rows)
ReturnFrame ==
    /\ pc = "loop"
    /\ i > Len(input_df)
    /\ raw_df' = DataFrame(output_rows)
    /\ pc' = "clean"
    /\ UNCHANGED <<db_df, input_df, workcenter_map, i, output_rows, processed_df, ui, error>>

\* clean_output(raw_df) on a frame without the time columns
CleanFails ==
    /\ pc = "clean"
    /\ CleanRaisesKeyError(raw_df)
    /\ Caught("KeyError")
    /\ UNCHANGED <<db_df, input_df, workcenter_map, i, output_rows, raw_df, processed_df>>

\* processed_df = clean_output(raw_df), then the success message, the preview
\* and the download button
CleanDone ==
    /\ pc = "clean"
    /\ ~CleanRaisesKeyError(raw_df)
    /\ processed_df' = clean_output(raw_df)
    /\ ui' = ui \o <<"success_complete", "preview_processed", "download_button">>
    /\ pc' = "done"
    /\ UNCHANGED <<db_df, input_df, workcenter_map, i, output_rows, raw_df, error>>

Next ==
    \/ Upload
    \/ RowFails
    \/ RowSkipped
    \/ RowExpanded
    \/ ReturnFrame
    \/ CleanFails
    \/ CleanDone

Spec == Init /\ [][Next]_vars

----------------------------------------------------------------------------
(* clean_output as a function of any table *)

SetupCells == {Num(-2), Num(0), Num(2), NaN, Text}

MachineCells == {Num(0), Num(2), NaN}

LabourCells == {Num(0), NumStr(2), NaN}

TimeTriples == SetupCells \X MachineCells \X LabourCells

\* a frame with the output columns and the chosen totals
Table(c) ==
    [columns |-> OutputColumns,
     index |-> [k \in 1..Len(c) |-> k - 1],
     rows |-> [k \in 1..Len(c) |->
                  [Order |-> 1000 + k, SKU |-> "A1", Qty |-> Num(1),
                   PlannedShipDate |-> to_date(GoodDate), Asset |-> "61",
                   TotalSetupTime |-> c[k][1], TotalMachineTime |-> c[k][2],
                   TotalLabourTime |-> c[k][3]]]]

InitCleaner ==
    /\ db_df \in {[columns |-> LayoutA, rows |-> <<RefRow("A1", AllTwos(LayoutA))>>]}
    /\ input_df = <<>>
    /\ workcenter_map = EmptyMap
    /\ i = 0
    /\ output_rows = <<>>
    /\ \/ \E n \in 0..MaxCleanRows : \E c \in [1..n -> TimeTriples] : raw_df = Table(c)
       \/ raw_df = DataFrame(<<>>)
    /\ processed_df = NoFrame
    /\ ui = <<"success_uploaded", "preview_uploaded", "info_processing">>
    /\ error = ""
    /\ pc = "clean"

\* clean_output applied to its own result
CleanAgain ==
    /\ pc = "done"
    /\ processed_df' = clean_output(processed_df)
    /\ pc' = "cleaned_again"
    /\ UNCHANGED <<db_df, input_df, workcenter_map, i, output_rows, raw_df, ui, error>>

NextCleaner ==
    \/ CleanFails
    \/ CleanDone
    \/ CleanAgain

SpecCleaner == InitCleaner /\ [][NextCleaner]_vars

----------------------------------------------------------------------------
(* process_bom as a function of a whole table, for comparing two inputs *)

RECURSIVE process_bom(_, _, _)
\* the rows process_bom returns for the table rows[k..], or that it raised
process_bom(rows, wmap, k) ==
    IF k > Len(rows) THEN [raised |-> FALSE, rows |-> <<>>]
    ELSE IF RowRaises(rows[k]) THEN [raised |-> TRUE, rows |-> <<>>]
    ELSE LET rest == process_bom(rows, wmap, k + 1)
         IN  [raised |-> rest.raised,
              rows |-> IF rest.raised THEN <<>> ELSE RowOutput(rows[k], wmap) \o rest.rows]

----------------------------------------------------------------------------
(* Vocabulary of the properties *)

Total(o, kind) ==
    CASE kind = "Setup" -> o.TotalSetupTime
      [] kind = "Machine" -> o.TotalMachineTime
      [] kind = "Labour" -> o.TotalLabourTime

\* the order row an output row was emitted for: column 0 numbers the rows
SourceRow(o) == input_df[o.Order - 1000]

PartUnknown(row) == \A k \in 1..Len(db_df.rows) : db_df.rows[k].Top_Material # row.sku

\* the first reference row of the part
ReferenceRecord(sku) ==
    db_df.rows[CHOOSE k \in 1..Len(db_df.rows) :
        /\ db_df.rows[k].Top_Material = sku
        /\ \A l \in 1..(k - 1) : db_df.rows[l].Top_Material # sku]

\* the columns headed "<wc> <kind>"
ColumnsOf(wc, kind) == {j \in 1..Len(db_df.columns) : db_df.columns[j] = Col(wc, kind)}

\* the position at which a workcenter id first appears among the columns
FirstColumn(wc) ==
    CHOOSE j \in 1..Len(db_df.columns) :
        /\ db_df.columns[j].wc = wc
        /\ \A l \in 1..(j - 1) : db_df.columns[l].wc # wc

BadDateOrQty(row) == row.date # GoodDate \/ row.qty.t = "str"

Without(s, k) == [n \in 1..(Len(s) - 1) |-> IF n < k THEN s[n] ELSE s[n + 1]]

ExpanderFinished == pc \in {"clean", "done"} \/ (pc = "error" /\ error = "KeyError")

Count(s, x) == Cardinality({n \in 1..Len(s) : s[n] = x})

\* the position in raw_df of the row an output row of the Cleaner came from
RawPosition(o) ==
    CHOOSE n \in 1..Len(raw_df.rows) :
        raw_df.rows[n].Order = o.Order /\ raw_df.rows[n].Asset = o.Asset

----------------------------------------------------------------------------
(* C1 *)

\* what the claim expects of one total of an emitted row
C1_Expected(o, kind) ==
    LET r == ReferenceRecord(o.SKU)
        q == SourceRow(o).qty.v
        js == ColumnsOf(o.Asset, kind)
    IN  IF js = {} THEN Num(0)
        ELSE LET cell == r.vals[CHOOSE j \in js : TRUE]
             IN  IF cell.t \in {"num", "numstr"} THEN Num(cell.v * q) ELSE Num(0)

\* C1: every total of every emitted row, for an order row with a numeric
\* quantity q, is the reference value times q when that value is numeric and
\* 0 when the field is blank, absent or non-numeric.
C1_TotalIsReferenceTimesQty ==
    \A n \in 1..Len(output_rows) :
        SourceRow(output_rows[n]).qty.t = "numstr" =>
            \A kind \in TimeKinds :
                Total(output_rows[n], kind) = C1_Expected(output_rows[n], kind)

----------------------------------------------------------------------------
(* C2 *)

\* C2: every row the Expander emits has a total strictly greater than zero,
\* and every row of the Cleaner's output has three numeric, non-negative totals.
C2_EmittedPositiveCleanedNonNegative ==
    /\ \A n \in 1..Len(output_rows) :
          \E kind \in TimeKinds :
              Total(output_rows[n], kind).t = "num" /\ Total(output_rows[n], kind).v > 0
    /\ pc = "done" =>
          \A n \in 1..Len(processed_df.rows) : \A kind \in TimeKinds :
              Total(processed_df.rows[n], kind).t = "num" /\ Total(processed_df.rows[n], kind).v >= 0

----------------------------------------------------------------------------
(* C3 *)

\* what the claim says of the order row at position k
C3_SkippedAt(k) ==
    /\ \A n \in 1..Len(output_rows) : output_rows[n].Order # input_df[k].order
    /\ ~(pc = "error" /\ error = "parse" /\ i = k)
    /\ ExpanderFinished =>
          /\ ~process_bom(Without(input_df, k), workcenter_map, 1).raised
          /\ output_rows = process_bom(Without(input_df, k), workcenter_map, 1).rows
    /\ (pc = "error" /\ error = "parse") =>
          process_bom(Without(input_df, k), workcenter_map, 1).raised

----------------------------------------------------------------------------
(* C4 *)

\* C4: when every date and quantity of the input parses, the run never reaches
\* the error display, also when the Expander produces no rows.
C4_NoErrorWhenInputParses ==
    (\A k \in 1..Len(input_df) : ~BadDateOrQty(input_df[k])) => pc # "error"

----------------------------------------------------------------------------
(* C5 *)

----------------------------------------------------------------------------
(* C6 *)

\* C6: an order row with quantity 0 whose part is in the reference table has
\* no output row once the loop has passed it.
C6_ZeroQtyEmitsNothing ==
    \A k \in 1..Len(input_df) :
        (k < i /\ input_df[k].qty = NumStr(0) /\ ~PartUnknown(input_df[k])) =>
            \A n \in 1..Len(output_rows) : output_rows[n].Order # input_df[k].order

----------------------------------------------------------------------------
(* C7 *)

\* C7: no row of the Cleaner's output has three totals equal to zero.
C7_NoAllZeroRow ==
    pc \in {"done", "cleaned_again"} =>
        \A n \in 1..Len(processed_df.rows) :
            \E kind \in TimeKinds : Total(processed_df.rows[n], kind) # Num(0)

C7_Witness ==
    /\ pc = "done"
    /\ Len(processed_df.rows) > 0
    /\ \E n \in 1..Len(raw_df.rows) :
          /\ \A kind \in TimeKinds : Total(raw_df.rows[n], kind) \in {Num(0), NaN, Text}
          /\ \E kind \in TimeKinds : Total(raw_df.rows[n], kind) \in {NaN, Text}

----------------------------------------------------------------------------
(* C8 *)

\* a total that is a number other than zero
C8_ValidNonZero(x) == x.t \in {"num", "numstr"} /\ x.v # 0

\* the total after the Cleaner, when the row is kept
C8_Cleaned(x) == IF x.t \in {"num", "numstr"} THEN Num(x.v) ELSE Num(0)

\* C8: every input row of the Cleaner with a valid non-zero total is in its
\* output, unchanged apart from blanks replaced by 0.
C8_RowWithNonZeroTotalKept ==
    pc = "done" =>
        \A n \in 1..Len(raw_df.rows) :
            (\E kind \in TimeKinds : C8_ValidNonZero(Total(raw_df.rows[n], kind))) =>
                \E m \in 1..Len(processed_df.rows) :
                    /\ processed_df.rows[m].Order = raw_df.rows[n].Order
                    /\ \A kind \in TimeKinds :
                          Total(processed_df.rows[m], kind) = C8_Cleaned(Total(raw_df.rows[n], kind))

----------------------------------------------------------------------------
(* C9 *)

\* C9: a second pass of the Cleaner over its own output returns that output:
\* the same rows, the same values, the same index.
C9_CleanerIdempotent ==
    [][(pc = "done" /\ pc' = "cleaned_again") => processed_df' = processed_df]_vars

C9_Witness ==
    /\ pc = "cleaned_again"
    /\ Len(processed_df.rows) > 0
    /\ Len(processed_df.rows) < Len(raw_df.rows)
    /\ \E n \in 1..Len(processed_df.rows) :
          \E kind \in TimeKinds :
              Total(raw_df.rows[processed_df.rows[n].Order - 1000], kind) \in {NaN, Text}

----------------------------------------------------------------------------
(* C10 *)

\* C10: the rows of the Expander follow the order rows, and within one order
\* row the first appearance of the workcenters among the columns; the Cleaner
\* keeps the relative order of the rows and numbers them 0..n-1.
C10_OutputOrder ==
    /\ \A a, b \in 1..Len(output_rows) :
          a < b =>
              \/ output_rows[a].Order < output_rows[b].Order
              \/ /\ output_rows[a].Order = output_rows[b].Order
                 /\ FirstColumn(output_rows[a].Asset) < FirstColumn(output_rows[b].Asset)
    /\ pc \in {"clean", "done"} => raw_df.rows = output_rows
    /\ pc = "done" =>
          /\ \A a, b \in 1..Len(processed_df.rows) :
                a < b => RawPosition(processed_df.rows[a]) < RawPosition(processed_df.rows[b])
          /\ \A n \in 1..Len(processed_df.rows) : processed_df.index[n] = n - 1
          /\ Len(processed_df.index) = Len(processed_df.rows)

C10_Witness ==
    /\ pc = "done"
    /\ db_df.columns = LayoutB
    /\ Len(raw_df.rows) >= 3
    /\ raw_df.rows[1].Asset = "62"
    /\ raw_df.rows[2].Asset = "61"
    /\ raw_df.rows[1].Order = raw_df.rows[2].Order
    /\ Len(processed_df.rows) >= 2
    /\ \E n \in 1..Len(processed_df.rows) : RawPosition(processed_df.rows[n]) > n

====
